---- MODULE Spec2Model ----
(***************************************************************************)
(* Model of src/src/tools/picnic-tools.ts: the recipe cache and the        *)
(* recipe handlers (picnic_get_recipes, picnic_get_recipe_details,         *)
(* picnic_add_recipe_to_cart) and the checkout handler (picnic_checkout).  *)
(* A handler is an async function: it runs atomically from one await of    *)
(* an external call to the next, so each action below is one such run.     *)
(***************************************************************************)
EXTENDS Integers, Sequences, FiniteSets, TLC

(***************************************************************************)
(* Bounds of the model.                                                    *)
(***************************************************************************)
\* number of picnic_checkout invocations (they may overlap)
MaxCheckouts == 2
\* the largest selling_unit_quantity, servings and default_servings of the scaling check
MaxQuantity == 27
MaxServings == 7
MaxDefaultServings == 3
\* number of picnic_get_recipes invocations (they may overlap) and of clock advances
MaxRecipeCalls == 3
MaxTicks == 3
\* the most ingredients of a recipe of the meal planner
MaxIngredients == 2
\* the most results of a search or deliveries of a listing, and the largest offset and
\* limit asked of them
MaxTotal == 23
MaxOffset == 24
MaxLimit == 11
\* how deep the payloads given to the recipe search nest objects and arrays
MaxNesting == 2
\* the objects of a payload whose objects refer to each other, and the calls the
\* engine's call stack holds
MaxObjects == 2
MaxStack == 5

(***************************************************************************)
(* JavaScript values: the external client returns loosely typed JSON.      *)
(***************************************************************************)
Undefined == [t |-> "undefined"]
Null == [t |-> "null"]
Num(n) == [t |-> "number", v |-> n]
Bool(b) == [t |-> "boolean", v |-> b]
Str(s) == [t |-> "string", v |-> s]
\* a string kept as its characters, for the strings the code slices
Text(cs) == [t |-> "string", chars |-> cs]
Arr(xs) == [t |-> "array", items |-> xs]
\* an object: its keys in insertion order, and their values
Obj(ks, vs) == [t |-> "object", keys |-> ks, vals |-> vs]

\* !v
Truthy(v) ==
  CASE v.t = "undefined" -> FALSE
    [] v.t = "null" -> FALSE
    [] v.t = "number" -> v.v # 0
    [] v.t = "boolean" -> v.v
    [] v.t = "string" -> IF "v" \in DOMAIN v THEN v.v # "" ELSE v.chars # <<>>
    [] OTHER -> TRUE

\* o.k on an object (undefined when the field is missing)
Get(o, k) ==
  IF o.t = "object" /\ \E i \in 1..Len(o.keys) : o.keys[i] = k
    THEN o.vals[CHOOSE i \in 1..Len(o.keys) : o.keys[i] = k]
    ELSE Undefined

\* o?.k
OptGet(o, k) == IF o.t \in {"undefined", "null"} THEN Undefined ELSE Get(o, k)

\* `${v}`
Template(v) ==
  CASE v.t = "undefined" -> "undefined"
    [] v.t = "null" -> "null"
    [] v.t = "string" -> v.v
    [] OTHER -> "[object]"

(***************************************************************************)
(* What the external service may answer.                                   *)
(***************************************************************************)
MtsVals == {Undefined, Num(0), Num(1), Num(2)}
StateTokenVals == {Undefined, Str("st1"), Str("st2")}
SlotVals == {Undefined, Obj(<<"window_start">>, <<Str("w")>>),
             Obj(<<"slot_id">>, <<Str("slot1")>>)}
\* the answers of getShoppingCart
\* (the service issues mts 1 with state token st1 and mts 2 with st2)
Carts ==
  {Obj(<<"mts", "state_token", "selected_slot">>, <<m, s, d>>) :
     m \in MtsVals, s \in StateTokenVals, d \in SlotVals}
  \ {Obj(<<"mts", "state_token", "selected_slot">>, <<ms[1], ms[2], d>>) :
       ms \in {<<Num(1), Str("st2")>>, <<Num(2), Str("st1")>>}, d \in SlotVals}
\* the answers of POST /cart/checkout/start
StartResponses ==
  {Obj(<<"order_id", "total_price", "total_count">>, <<Str("O1"), Num(2300), Num(6)>>),
   Obj(<<"order_id", "total_price", "total_count">>, <<Str("O2"), Num(2300), Num(6)>>),
   Obj(<<"error">>, <<Str("CART_CHANGED")>>)}

VARIABLES
  scaling,           \* one evaluation of the serving-scaled quantity: its inputs and result
  paging,            \* one paginated invocation: the full result, the arguments, the answer
  search,            \* extractRecipes on one payload, run twice: the payload and the results
  walk,              \* extractRecipes call by call on a payload of objects that refer to
                     \* each other: the objects, the call stack, the recipes found
  clientInitialized, \* getPicnicClient() does not throw
  recipeCacheData,      \* Recipe[] | null
  recipeCacheTimestamp,
  clock,                \* Date.now()
  mealPlanner,          \* the pages GET /pages/meals-planner-root may answer
  recipe,               \* per recipe handler invocation: pc and the handler's locals
  rtrace,               \* per recipe handler invocation: the calls to the grocery API and
                        \* their outcomes
  checkout,          \* per picnic_checkout invocation: pc and the handler's locals
  ctrace             \* per picnic_checkout invocation: the calls to the grocery API and
                     \* their outcomes

cvars == <<checkout, ctrace>>
rvars == <<recipeCacheData, recipeCacheTimestamp, clock, mealPlanner, recipe, rtrace>>
fvars == <<scaling, paging, search, walk>>
vars == <<fvars, clientInitialized, cvars, rvars>>

Checkouts == 1..MaxCheckouts
RecipeCalls == 1..MaxRecipeCalls


(***************************************************************************)
(* The external calls a handler issues, and how each ended.                *)
(***************************************************************************)
CallEv(op, arg) == [e |-> "call", op |-> op, arg |-> arg]
ReturnEv(op, val) == [e |-> "return", op |-> op, val |-> val]
ThrowEv(op) == [e |-> "throw", op |-> op]
\* client.sendRequest(method, path, body)
Request(method, path, body) == [method |-> method, path |-> path, body |-> body]

Min(a, b) == IF a < b THEN a ELSE b

(***************************************************************************)
(* IEEE-754 double arithmetic on positive numbers, as the handler's        *)
(* servings / default_servings, selling_unit_quantity * scale and          *)
(* Math.ceil use it.  A double is m * 2^e with a 53-bit significand m,     *)
(* 2^52 <= m < 2^53, kept as three limbs: m = hi * 2^36 + mid * 2^18 + lo  *)
(* (hi of 17 bits, mid and lo of 18 bits).                                 *)
(***************************************************************************)
Limb == 2^18

\* number of bits of n > 0
RECURSIVE BitLen(_)
BitLen(n) == IF n = 0 THEN 0 ELSE 1 + BitLen(n \div 2)

\* m + 1 on a significand; 2^53 renormalises to 2^52 with the exponent raised
Increment(x) ==
  IF x.lo + 1 < Limb THEN [x EXCEPT !.lo = @ + 1]
  ELSE IF x.mid + 1 < Limb THEN [x EXCEPT !.lo = 0, !.mid = @ + 1]
  ELSE IF x.hi + 1 < 2^17 THEN [x EXCEPT !.lo = 0, !.mid = 0, !.hi = @ + 1]
  ELSE [hi |-> 2^16, mid |-> 0, lo |-> 0, e |-> x.e + 1]

\* round to nearest, ties to even: `rest` is what lies below the last kept bit,
\* `half` is half a unit of that bit
RoundNearestEven(x, rest, half) ==
  IF rest > half \/ (rest = half /\ x.lo % 2 = 1) THEN Increment(x) ELSE x

\* s / d for whole numbers 1 <= s, d < 2^12: long division, one limb at a time, then
\* the rounding on the remainder
Divide(s, d) ==
  LET k == BitLen(s) - BitLen(d)
      S == IF k < 0 THEN s * 2^(-k) ELSE s
      D == IF k > 0 THEN d * 2^k ELSE d
      \* now S and D have the same bit length: S / D is in (1/2, 2)
      top == IF S >= D THEN k ELSE k - 1
      S1 == IF S >= D THEN S ELSE 2 * S
      \* 1 <= S1 / D < 2: the quotient has 1 + 52 bits
      n1 == S1 * 2^16
      n2 == (n1 % D) * Limb
      n3 == (n2 % D) * Limb
  IN RoundNearestEven([hi |-> n1 \div D, mid |-> n2 \div D, lo |-> n3 \div D,
                       e |-> top - 52],
                      2 * (n3 % D), D)

\* n * x for a whole number 1 <= n < 2^13
Multiply(n, x) ==
  LET p3 == n * x.lo
      p2 == n * x.mid + p3 \div Limb
      p1 == n * x.hi + p2 \div Limb
      q3 == p3 % Limb
      q2 == p2 % Limb
      sh == BitLen(p1) - 17
      kept == [hi |-> p1 \div 2^sh,
               mid |-> q2 \div 2^sh + (p1 % 2^sh) * 2^(18 - sh),
               lo |-> q3 \div 2^sh + (q2 % 2^sh) * 2^(18 - sh),
               e |-> x.e + sh]
  IN IF sh = 0 THEN kept ELSE RoundNearestEven(kept, 2 * (q3 % 2^sh), 2^sh)

\* Math.ceil(x) for 0 < x < 2^30
Ceil(x) ==
  LET f == -x.e
  IN IF f >= 53 THEN 1
     ELSE IF f > 36
       THEN x.hi \div 2^(f - 36)
            + (IF x.hi % 2^(f - 36) # 0 \/ x.mid # 0 \/ x.lo # 0 THEN 1 ELSE 0)
     ELSE x.hi * 2^(36 - f) + x.mid \div 2^(f - 18)
          + (IF x.mid % 2^(f - 18) # 0 \/ x.lo # 0 THEN 1 ELSE 0)

\* var scale = servings / recipe.default_servings
\* var quantity = Math.ceil(ingredient.selling_unit_quantity * scale)
Quantity(selling_unit_quantity, servings, default_servings) ==
  Ceil(Multiply(selling_unit_quantity, Divide(servings, default_servings)))

\* args.servings ?? recipe.default_servings
Servings(servings, default_servings) ==
  IF servings.t \in {"undefined", "null"} THEN default_servings ELSE servings

(***************************************************************************)
(* extractRecipes call by call, on payloads whose objects may refer to     *)
(* each other (an object is its number; object 1 is the payload).  The     *)
(* engine's call stack holds MaxStack calls of recurse; one more raises a  *)
(* RangeError.                                                             *)
(***************************************************************************)
\* an object: whether it has a recipe_id and an ingredient array, and the objects its
\* fields hold
Heaps ==
  [1..MaxObjects ->
     [recipe : BOOLEAN, below : UNION {[1..n -> 1..MaxObjects] : n \in 0..2}]]

NoWalk == [pc |-> "off"]

\* recurse(node): a recipe is pushed, any other object gets a call frame
Recurse(w, node) ==
  IF w.heap[node].recipe THEN [w EXCEPT !.recipes = Append(@, node)]
  ELSE [w EXCEPT !.stack = Append(@, [node |-> node, next |-> 1])]

\* the top call frame moved on to its next field
Advance(w) == [w EXCEPT !.stack[Len(w.stack)].next = @ + 1]

\* recurse(obj)
WalkStart ==
  /\ walk.pc = "input"
  /\ walk' = Recurse([walk EXCEPT !.pc = "running"], 1)
  /\ UNCHANGED <<scaling, paging, search, clientInitialized, cvars, rvars>>

\* Object.values(rec).forEach(recurse): the next field of the running call
WalkDescend ==
  /\ walk.pc = "running" /\ walk.stack # <<>>
  /\ LET top == walk.stack[Len(walk.stack)]
     IN /\ top.next <= Len(walk.heap[top.node].below)
        /\ walk.heap[walk.heap[top.node].below[top.next]].recipe \/ Len(walk.stack) < MaxStack
        /\ walk' = Recurse(Advance(walk), walk.heap[top.node].below[top.next])
  /\ UNCHANGED <<scaling, paging, search, clientInitialized, cvars, rvars>>

\* the running call is through its fields and returns; the first call returns the recipes
WalkReturn ==
  /\ walk.pc = "running"
  /\ walk.stack # <<>> => walk.stack[Len(walk.stack)].next
                            > Len(walk.heap[walk.stack[Len(walk.stack)].node].below)
  /\ walk' = IF Len(walk.stack) <= 1 THEN [walk EXCEPT !.pc = "returned", !.stack = <<>>]
             ELSE [walk EXCEPT !.stack = SubSeq(@, 1, Len(@) - 1)]
  /\ UNCHANGED <<scaling, paging, search, clientInitialized, cvars, rvars>>

\* a call beyond what the call stack holds: the engine throws a RangeError
WalkOverflow ==
  /\ walk.pc = "running" /\ walk.stack # <<>>
  /\ LET top == walk.stack[Len(walk.stack)]
     IN /\ top.next <= Len(walk.heap[top.node].below)
        /\ ~walk.heap[walk.heap[top.node].below[top.next]].recipe
        /\ Len(walk.stack) >= MaxStack
  /\ walk' = [walk EXCEPT !.pc = "RangeError"]
  /\ UNCHANGED <<scaling, paging, search, clientInitialized, cvars, rvars>>

(***************************************************************************)
(* Pagination of picnic_search and picnic_get_deliveries: the slice of the *)
(* fully fetched result and the pagination record.                         *)
(***************************************************************************)
\* a || b
Or(a, b) == IF Truthy(a) THEN a ELSE b

\* mutant of Slice: the element at index end is taken too
SliceThrough(xs, start, end) ==
  IF start >= Len(xs) THEN <<>> ELSE SubSeq(xs, start + 1, Min(end + 1, Len(xs)))

\* xs.slice(start, end), 0 <= start <= end
Slice(xs, start, end) ==
  IF start >= Len(xs) THEN <<>> ELSE SubSeq(xs, start + 1, Min(end, Len(xs)))

\* the k-th product client.search answers; every second one has an image
Product(k) ==
  Obj(<<"id", "name", "display_price", "unit_quantity", "image_id", "decorators">>,
      <<Num(k), Str("product"), Num(100 + k), Str("1 kg"),
        IF k % 2 = 0 THEN Str("img") ELSE Undefined, Arr(<<>>)>>)

\* the k-th delivery client.getDeliveries answers
Delivery(k) == Obj(<<"delivery_id", "status">>, <<Num(k), Str("COMPLETED")>>)

\* (product) => ({ id, name, price, unit, ...(product.image_id && { image_id }) })
FilterProduct(product) ==
  LET image == IF Truthy(Get(product, "image_id")) THEN <<"image_id">> ELSE <<>>
  IN Obj(<<"id", "name", "price", "unit">> \o image,
         <<Get(product, "id"), Get(product, "name"), Get(product, "display_price"),
           Get(product, "unit_quantity")>>
           \o [i \in 1..Len(image) |-> Get(product, "image_id")])

\* the pagination record of both handlers
Pagination(all, startIndex, limit, returned) ==
  Obj(<<"offset", "limit", "returned", "total", "hasMore">>,
      <<Num(startIndex), Num(limit), Num(returned), Num(Len(all)),
        Bool(startIndex + limit < Len(all))>>)

\* picnic_search, from the answer of client.search on
SearchResult(allResults, args) ==
  LET startIndex == Or(Get(args, "offset"), Num(0)).v
      limit == Or(Get(args, "limit"), Num(5)).v
      paginatedResults == Slice(allResults, startIndex, startIndex + limit)
      filteredResults == [i \in 1..Len(paginatedResults) |-> FilterProduct(paginatedResults[i])]
  IN Obj(<<"query", "results", "pagination">>,
         <<Get(args, "query"), Arr(filteredResults),
           Pagination(allResults, startIndex, limit, Len(filteredResults))>>)

\* picnic_get_deliveries, from the answer of client.getDeliveries on
DeliveriesResult(allDeliveries, args) ==
  LET startIndex == Or(Get(args, "offset"), Num(0)).v
      limit == Or(Get(args, "limit"), Num(10)).v
      paginatedDeliveries == Slice(allDeliveries, startIndex, startIndex + limit)
  IN Obj(<<"deliveries", "pagination">>,
         <<Arr(paginatedDeliveries),
           Pagination(allDeliveries, startIndex, limit, Len(paginatedDeliveries))>>)

NoPaging == [pc |-> "off"]

\* every full result of up to MaxTotal entries, with every offset and limit the input
\* schemas let through (offset >= 0, limit >= 1)
PagingInputs ==
  {[pc |-> "input", op |-> op, total |-> total,
    args |-> Obj(<<"query", "offset", "limit">>, <<Str("q"), Num(offset), Num(limit)>>)] :
     op \in {"picnic_search", "picnic_get_deliveries"}, total \in 0..MaxTotal,
     offset \in 0..MaxOffset, limit \in 1..MaxLimit}

Paginate ==
  /\ paging.pc = "input"
  /\ paging' =
       [pc |-> "done", op |-> paging.op, total |-> paging.total, args |-> paging.args,
        ret |-> IF paging.op = "picnic_search"
                  THEN SearchResult([k \in 1..paging.total |-> Product(k)], paging.args)
                  ELSE DeliveriesResult([k \in 1..paging.total |-> Delivery(k)], paging.args)]
  /\ UNCHANGED <<scaling, search, walk, clientInitialized, cvars, rvars>>

(***************************************************************************)
(* The scaling on its own: any quantity, servings and default servings.    *)
(***************************************************************************)
NoScaling == [pc |-> "off"]

ScalingInputs ==
  [pc : {"input"}, selling_unit_quantity : 1..MaxQuantity,
   servings : {Undefined} \cup {Num(n) : n \in 1..MaxServings},
   default_servings : 1..MaxDefaultServings]

Scale ==
  /\ scaling.pc = "input"
  /\ scaling' =
       [pc |-> "done", selling_unit_quantity |-> scaling.selling_unit_quantity,
        servings |-> Servings(scaling.servings, Num(scaling.default_servings)).v,
        default_servings |-> scaling.default_servings,
        quantity |-> Quantity(scaling.selling_unit_quantity,
                              Servings(scaling.servings, Num(scaling.default_servings)).v,
                              scaling.default_servings)]
  /\ UNCHANGED <<paging, search, walk, clientInitialized, cvars, rvars>>


(***************************************************************************)
(* The recipe cache and the recipe handlers                                *)
(***************************************************************************)
RECIPE_CACHE_TTL_MS == 5 * 60 * 1000
\* Date.now() when the process starts, and how far one clock advance goes
ProcessStart == 10 * RECIPE_CACHE_TTL_MS
TickMs == RECIPE_CACHE_TTL_MS \div 2

\* rec.recipe_id && Array.isArray(rec.ingredients)
IsRecipe(rec) == Truthy(Get(rec, "recipe_id")) /\ Get(rec, "ingredients").t = "array"

RECURSIVE recurse(_), recurseEach(_)
\* mutant of recurse: a matched node is pushed and then searched like any other object
recurseInto(node) ==
  IF node.t = "array" THEN recurseEach(node.items)
  ELSE IF node.t = "object"
    THEN IF IsRecipe(node) THEN <<node>> \o recurseEach(node.vals) ELSE recurseEach(node.vals)
  ELSE <<>>

recurse(node) ==
  IF node.t = "array" THEN recurseEach(node.items)
  ELSE IF node.t = "object"
    THEN IF IsRecipe(node) THEN <<node>> ELSE recurseEach(node.vals)
  ELSE <<>>
\* nodes.forEach(recurse)
recurseEach(nodes) ==
  IF nodes = <<>> THEN <<>> ELSE recurse(Head(nodes)) \o recurseEach(Tail(nodes))

extractRecipes(obj) == recurse(obj)

(***************************************************************************)
(* extractRecipes on its own: payloads of every shape, run twice each.     *)
(***************************************************************************)
\* values that hold nothing; two of them are recipes
Leaves ==
  {Num(7), Null, Str("text"),
   Obj(<<"recipe_id", "ingredients">>, <<Str("a"), Arr(<<>>)>>),
   Obj(<<"recipe_id", "ingredients">>, <<Str("b"), Arr(<<>>)>>)}

\* an array or object holding c and d: plain ones, a recipe (c among its ingredients,
\* d as its related field), and two objects that look like a recipe but have an empty
\* recipe_id or no ingredient array
Holding(kind, c, d) ==
  CASE kind = "array" -> Arr(<<c, d>>)
    [] kind = "object" -> Obj(<<"type", "content">>, <<c, d>>)
    [] kind = "recipe" ->
         Obj(<<"recipe_id", "ingredients", "related">>, <<Str("p"), Arr(<<c>>), d>>)
    [] kind = "no id" ->
         Obj(<<"recipe_id", "ingredients", "related">>, <<Str(""), Arr(<<c>>), d>>)
    [] kind = "no ingredients" ->
         Obj(<<"recipe_id", "ingredients", "related">>, <<Str("q"), c, d>>)

\* the payloads nesting exactly n levels of them: the deeper branch with a number or a
\* recipe after it, or with a recipe before it
RECURSIVE Nested(_)
Nested(n) ==
  IF n = 0 THEN Leaves
  ELSE LET b == Obj(<<"recipe_id", "ingredients">>, <<Str("b"), Arr(<<>>)>>)
           deeper == Nested(n - 1)
       IN {Holding(kind, cd[1], cd[2]) :
             kind \in {"array", "object", "recipe", "no id", "no ingredients"},
             cd \in (deeper \X {Num(7), b}) \cup ({b} \X deeper)}

Payloads == UNION {Nested(n) : n \in 0..MaxNesting}

NoSearch == [pc |-> "off"]

\* recipes = extractRecipes(response)
ExtractRecipes ==
  /\ search.pc = "input"
  /\ search' = [pc |-> "once", payload |-> search.payload,
                first |-> extractRecipes(search.payload)]
  /\ UNCHANGED <<scaling, paging, walk, clientInitialized, cvars, rvars>>

\* the same response searched again
ExtractRecipesAgain ==
  /\ search.pc = "once"
  /\ search' = [pc |-> "twice", payload |-> search.payload, first |-> search.first,
                second |-> extractRecipes(search.payload)]
  /\ UNCHANGED <<scaling, paging, walk, clientInitialized, cvars, rvars>>

\* mutant of CacheFresh: <= written for <
CacheFreshInclusive(now) ==
  Truthy(recipeCacheData) /\ now - recipeCacheTimestamp <= RECIPE_CACHE_TTL_MS

\* recipeCacheData && now - recipeCacheTimestamp < RECIPE_CACHE_TTL_MS
CacheFresh(now) ==
  Truthy(recipeCacheData) /\ now - recipeCacheTimestamp < RECIPE_CACHE_TTL_MS

\* mutant of Find: the first recipe stands in when none matches
FindOrFirst(recipes, id) ==
  IF \E i \in 1..Len(recipes) : Get(recipes[i], "recipe_id") = id
    THEN recipes[CHOOSE i \in 1..Len(recipes) :
                   /\ Get(recipes[i], "recipe_id") = id
                   /\ \A h \in 1..(i - 1) : Get(recipes[h], "recipe_id") # id]
  ELSE IF recipes = <<>> THEN Undefined
  ELSE Head(recipes)

\* recipes.find((r) => r.recipe_id === id)
RECURSIVE Find(_, _)
Find(recipes, id) ==
  IF recipes = <<>> THEN Undefined
  ELSE IF Get(Head(recipes), "recipe_id") = id THEN Head(recipes)
  ELSE Find(Tail(recipes), id)

Summary(r) ==
  Obj(<<"recipe_id", "name", "description", "preparation_time_in_minutes",
        "default_servings", "course", "kitchen", "is_vega_vegan", "recipe_type",
        "quality_cue", "label", "ingredient_count">>,
      <<Get(r, "recipe_id"), Get(r, "name"), Get(r, "description"),
        Get(r, "active_preparation_time_in_minutes"), Get(r, "default_servings"),
        Get(r, "course"), Get(r, "kitchen"), Get(r, "is_vega_vegan"),
        Get(r, "recipe_type"), Get(r, "quality_cue"),
        OptGet(Get(r, "display_label"), "text"),
        Num(Len(Get(r, "ingredients").items))>>)

\* the value picnic_get_recipes returns
RecipeList(recipes) ==
  Obj(<<"recipes", "total">>, <<Arr([i \in 1..Len(recipes) |-> Summary(recipes[i])]), Num(Len(recipes))>>)

NotFound(recipe_id) ==
  Obj(<<"error", "suggestion">>,
      <<Text(<<"Recipe '", Template(recipe_id), "' not found">>),
        Str("Use picnic_get_recipes to find valid recipe IDs.")>>)

DetailIngredient(i) ==
  Obj(<<"selling_unit_id", "name", "ingredient_type", "quantity", "unit",
        "selling_unit_quantity", "availability">>,
      <<Get(i, "selling_unit_id"), Get(i, "name"), Get(i, "ingredient_type"),
        Get(i, "display_ingredient_quantity"), Get(i, "display_unit_of_measurement"),
        Get(i, "selling_unit_quantity"), Get(i, "availability_status")>>)

DetailStep(st) ==
  Obj(<<"header", "body", "type">>, <<Get(st, "header"), Get(st, "body"), Get(st, "type")>>)

DetailImage(img) == Get(img, "image_id")

\* the value picnic_get_recipe_details returns for a recipe it found
RecipeDetails(r) ==
  Obj(<<"recipe_id", "name", "description", "course", "kitchen", "is_vega_vegan",
        "recipe_type", "default_servings", "minimum_servings", "maximum_servings",
        "serving_step", "preparation_time_in_minutes", "quality_cue", "label",
        "ingredients", "preparation_instructions", "images">>,
      <<Get(r, "recipe_id"), Get(r, "name"), Get(r, "description"), Get(r, "course"),
        Get(r, "kitchen"), Get(r, "is_vega_vegan"), Get(r, "recipe_type"),
        Get(r, "default_servings"), Get(r, "minimum_servings"),
        Get(r, "maximum_servings"), Get(r, "serving_step"),
        Get(r, "active_preparation_time_in_minutes"), Get(r, "quality_cue"),
        OptGet(Get(r, "display_label"), "text"),
        Arr([i \in 1..Len(Get(r, "ingredients").items) |->
               DetailIngredient(Get(r, "ingredients").items[i])]),
        Arr([i \in 1..Len(Get(r, "preparation_instructions").items) |->
               DetailStep(Get(r, "preparation_instructions").items[i])]),
        IF Get(r, "images").t \in {"undefined", "null"} THEN Undefined
        ELSE Arr([i \in 1..Len(Get(r, "images").items) |->
                    DetailImage(Get(r, "images").items[i])])>>)

RecipeIdle ==
  [pc |-> "idle", op |-> "none", args |-> Undefined, now |-> 0, recipe |-> Undefined,
   servings |-> Undefined, next |-> 0, quantity |-> 0, added |-> <<>>,
   skippedCupboard |-> <<>>, unavailable |-> <<>>, ret |-> Undefined]

\* the value picnic_add_recipe_to_cart returns after the loop
AddResult(L) ==
  Obj(<<"recipe_name", "servings", "added", "skipped_cupboard", "unavailable">>,
      <<Get(L.recipe, "name"), L.servings, Arr(L.added), Arr(L.skippedCupboard),
        Arr(L.unavailable)>>)

\* mutant of Classify: the availability is looked at before the ingredient type
ClassifyAvailabilityFirst(ingredient) ==
  IF Get(ingredient, "availability_status") # Str("AVAILABLE") THEN "unavailable"
  ELSE IF Get(ingredient, "ingredient_type") = Str("CUPBOARD") THEN "cupboard"
  ELSE "add"

\* for (var ingredient of recipe.ingredients): where an ingredient goes
Classify(ingredient) ==
  IF Get(ingredient, "ingredient_type") = Str("CUPBOARD") THEN "cupboard"
  ELSE IF Get(ingredient, "availability_status") # Str("AVAILABLE") THEN "unavailable"
  ELSE "add"

\* the loop from ingredient k on, up to its next await (an add-to-cart call) or its end
RECURSIVE Loop(_, _)
Loop(L, k) ==
  LET ingredients == Get(L.recipe, "ingredients").items
  IN IF k > Len(ingredients)
       THEN [L EXCEPT !.pc = "done", !.next = k, !.ret = AddResult([L EXCEPT !.next = k])]
     ELSE IF Classify(ingredients[k]) = "cupboard"
       THEN Loop([L EXCEPT !.skippedCupboard = Append(@, Get(ingredients[k], "name"))], k + 1)
     ELSE IF Classify(ingredients[k]) = "unavailable"
       THEN Loop([L EXCEPT !.unavailable = Append(@, Get(ingredients[k], "name"))], k + 1)
     ELSE [L EXCEPT !.pc = "add", !.next = k,
                    !.quantity = Quantity(Get(ingredients[k], "selling_unit_quantity").v,
                                          L.servings.v,
                                          Get(L.recipe, "default_servings").v)]

\* the handler of L.op, from the return of fetchRecipes() to its next await or its end
AfterFetch(L, recipes, initialized) ==
  IF L.op = "picnic_get_recipes"
    THEN [L EXCEPT !.pc = "done", !.ret = RecipeList(recipes)]
  ELSE LET found == Find(recipes, Get(L.args, "recipe_id"))
       IN IF ~Truthy(found)
            THEN [L EXCEPT !.pc = "done", !.ret = NotFound(Get(L.args, "recipe_id"))]
          ELSE IF L.op = "picnic_get_recipe_details"
            THEN [L EXCEPT !.pc = "done", !.recipe = found, !.ret = RecipeDetails(found)]
          ELSE LET L1 == [L EXCEPT !.recipe = found,
                                   !.servings = Servings(Get(L.args, "servings"),
                                                         Get(found, "default_servings"))]
               IN IF initialized THEN Loop(L1, 1) ELSE [L1 EXCEPT !.pc = "init_add"]

\* the call a handler that has just run up to an await is waiting for
Awaited(L) ==
  IF L.pc = "fetch"
    THEN <<CallEv("sendRequest", Request("GET", <<"pages", "meals-planner-root">>, Null))>>
  ELSE IF L.pc = "add"
    THEN <<CallEv("addProductToShoppingCart",
                  <<Get(Get(L.recipe, "ingredients").items[L.next], "selling_unit_id"),
                    L.quantity>>)>>
  ELSE <<>>

\* fetchRecipes() from its first line to its first await, or to its return
FetchRecipes(L) ==
  IF CacheFresh(clock) THEN AfterFetch([L EXCEPT !.now = clock], recipeCacheData.items,
                                       clientInitialized)
  ELSE IF clientInitialized THEN [L EXCEPT !.now = clock, !.pc = "fetch"]
  ELSE [L EXCEPT !.now = clock, !.pc = "init"]

\* a handler is entered with its arguments
Enter(j, op, args) ==
  /\ recipe[j].pc = "idle"
  /\ \A i \in RecipeCalls : i < j => recipe[i].pc # "idle"
  /\ LET L == FetchRecipes([recipe[j] EXCEPT !.op = op, !.args = args])
     IN /\ recipe' = [recipe EXCEPT ![j] = L]
        /\ rtrace' = [rtrace EXCEPT ![j] = @ \o Awaited(L)]
  /\ UNCHANGED <<clientInitialized, recipeCacheData, recipeCacheTimestamp, clock, mealPlanner,
                 fvars, cvars>>

RecipeIds == {Str("r1"), Str("r2"), Str("r9")}
ServingsArgs == {Undefined, Num(1), Num(4)}

GetRecipes(j) == Enter(j, "picnic_get_recipes", Obj(<<>>, <<>>))

GetRecipeDetails(j) ==
  \E id \in RecipeIds : Enter(j, "picnic_get_recipe_details", Obj(<<"recipe_id">>, <<id>>))

AddRecipeToCart(j) ==
  \E id \in RecipeIds, servings \in ServingsArgs :
    Enter(j, "picnic_add_recipe_to_cart",
          IF servings = Undefined THEN Obj(<<"recipe_id">>, <<id>>)
          ELSE Obj(<<"recipe_id", "servings">>, <<id, servings>>))

\* initializePicnicClient() resolves, in fetchRecipes() or in the add handler
RecipeInitReturns(j) ==
  /\ recipe[j].pc \in {"init", "init_add"}
  /\ clientInitialized' = TRUE
  /\ LET L == IF recipe[j].pc = "init" THEN [recipe[j] EXCEPT !.pc = "fetch"]
              ELSE Loop(recipe[j], 1)
     IN /\ recipe' = [recipe EXCEPT ![j] = L]
        /\ rtrace' = [rtrace EXCEPT ![j] = @ \o Awaited(L)]
  /\ UNCHANGED <<recipeCacheData, recipeCacheTimestamp, clock, mealPlanner, fvars, cvars>>

\* mutant of FetchReturns: the newer of the stored and the own timestamp is kept
FetchReturnsKeepsNewest(j) ==
  /\ recipe[j].pc = "fetch"
  /\ \E response \in mealPlanner :
       LET recipes == extractRecipes(response)
           L == AfterFetch(recipe[j], recipes, clientInitialized)
       IN /\ recipeCacheData' = Arr(recipes)
          /\ recipeCacheTimestamp' = IF recipeCacheTimestamp > recipe[j].now
                                       THEN recipeCacheTimestamp ELSE recipe[j].now
          /\ recipe' = [recipe EXCEPT ![j] = L]
          /\ rtrace' = [rtrace EXCEPT ![j] =
               Append(@, ReturnEv("sendRequest", response)) \o Awaited(L)]
  /\ UNCHANGED <<clientInitialized, clock, mealPlanner, fvars, cvars>>

\* the meal planner page arrives: the cache is replaced and the handler goes on
FetchReturns(j) ==
  /\ recipe[j].pc = "fetch"
  /\ \E response \in mealPlanner :
       LET recipes == extractRecipes(response)
           L == AfterFetch(recipe[j], recipes, clientInitialized)
       IN /\ recipeCacheData' = Arr(recipes)
          /\ recipeCacheTimestamp' = recipe[j].now
          /\ recipe' = [recipe EXCEPT ![j] = L]
          /\ rtrace' = [rtrace EXCEPT ![j] =
               Append(@, ReturnEv("sendRequest", response)) \o Awaited(L)]
  /\ UNCHANGED <<clientInitialized, clock, mealPlanner, fvars, cvars>>

\* addProductToShoppingCart() resolves: the ingredient is recorded and the loop goes on
AddReturns(j) ==
  /\ recipe[j].pc = "add"
  /\ LET ingredient == Get(recipe[j].recipe, "ingredients").items[recipe[j].next]
         L == Loop([recipe[j] EXCEPT !.added =
                      Append(@, Obj(<<"name", "quantity">>,
                                    <<Get(ingredient, "name"), Num(recipe[j].quantity)>>))],
                   recipe[j].next + 1)
     IN /\ recipe' = [recipe EXCEPT ![j] = L]
        /\ rtrace' = [rtrace EXCEPT ![j] =
             Append(@, ReturnEv("addProductToShoppingCart", Undefined)) \o Awaited(L)]
  /\ UNCHANGED <<clientInitialized, recipeCacheData, recipeCacheTimestamp, clock, mealPlanner,
                 fvars, cvars>>

\* mutant of RecipeThrows: a failed call still stamps the cache
RecipeThrowsStampsCache(j) ==
  /\ recipe[j].pc \in {"init", "init_add", "fetch", "add"}
  /\ recipe' = [recipe EXCEPT ![j].pc = "fault"]
  /\ rtrace' = [rtrace EXCEPT ![j] =
       IF recipe[j].pc \in {"init", "init_add"} THEN @ ELSE Append(@, ThrowEv(@[Len(@)].op))]
  /\ recipeCacheTimestamp' = recipe[j].now
  /\ UNCHANGED <<clientInitialized, recipeCacheData, clock, mealPlanner, fvars, cvars>>

\* no handler has a try/catch: the awaited call rejects and the handler rejects with it
RecipeThrows(j) ==
  /\ recipe[j].pc \in {"init", "init_add", "fetch", "add"}
  /\ recipe' = [recipe EXCEPT ![j].pc = "fault"]
  /\ rtrace' = [rtrace EXCEPT ![j] =
       IF recipe[j].pc \in {"init", "init_add"} THEN @ ELSE Append(@, ThrowEv(@[Len(@)].op))]
  /\ UNCHANGED <<clientInitialized, recipeCacheData, recipeCacheTimestamp, clock, mealPlanner,
                 fvars, cvars>>

\* time passes
Tick ==
  /\ clock < ProcessStart + MaxTicks * TickMs
  /\ clock' = clock + TickMs
  /\ UNCHANGED <<clientInitialized, recipeCacheData, recipeCacheTimestamp, mealPlanner,
                 recipe, rtrace, fvars, cvars>>

(***************************************************************************)
(* Meal planner pages: recipes sit somewhere inside a nested document.     *)
(***************************************************************************)
IngredientNames == <<"Salt", "Rice", "Oil", "Egg", "Milk", "Bread">>
SellingUnitIds == <<"s1", "s2", "s3", "s4", "s5", "s6">>
SellingUnitQuantities == <<3, 1, 2, 5, 4, 1>>
IngredientTypes == {"CORE", "VARIATION", "CUPBOARD"}
AvailabilityStatuses == {"AVAILABLE", "OUT_OF_STOCK"}

\* the k-th ingredient of a recipe
Ingredient(k, type, availability) ==
  Obj(<<"selling_unit_id", "name", "ingredient_type", "display_ingredient_quantity",
        "display_unit_of_measurement", "selling_unit_quantity", "availability_status">>,
      <<Str(SellingUnitIds[k]), Str(IngredientNames[k]), Str(type), Num(100), Str("g"),
        Num(SellingUnitQuantities[k]), Str(availability)>>)

MakeRecipe(id, name, default_servings, ingredients) ==
  Obj(<<"recipe_id", "name", "default_servings", "ingredients", "preparation_instructions">>,
      <<Str(id), Str(name), Num(default_servings), Arr(ingredients),
        Arr(<<Obj(<<"header", "body", "type">>, <<Str("Step 1"), Str("Cook"), Str("STEP")>>)>>)>>)

Tile(content) == Obj(<<"type", "content">>, <<Str("TILE"), content>>)

Page(recipes) ==
  Obj(<<"id", "body">>,
      <<Str("meals-planner-root"),
        Obj(<<"type", "children">>, <<Str("BLOCK"), Arr([i \in 1..Len(recipes) |-> Tile(recipes[i])])>>)>>)

Toast == MakeRecipe("r2", "Toast", 1, <<Ingredient(6, "CORE", "AVAILABLE")>>)

\* every ingredient list of at most MaxIngredients ingredients
IngredientLists ==
  UNION {{[k \in 1..n |-> Ingredient(k, f[k][1], f[k][2])] :
            f \in [1..n -> IngredientTypes \X AvailabilityStatuses]} :
         n \in 0..MaxIngredients}

\* pages with the recipe r1 "Curry" (2 servings) behind another recipe
CurryPages == {Page(<<Toast, MakeRecipe("r1", "Curry", 2, ingredients)>>) :
                 ingredients \in IngredientLists}

\* two pages the service may answer at different times: one has no recipe at all
MenuPages == {Page(<<>>), Page(<<Toast>>)}

RecipesAtRest ==
  /\ recipeCacheData = Null
  /\ recipeCacheTimestamp = 0
  /\ clock = ProcessStart
  /\ recipe = [j \in RecipeCalls |-> RecipeIdle]
  /\ rtrace = [j \in RecipeCalls |-> <<>>]

(***************************************************************************)
(* picnic_checkout                                                         *)
(***************************************************************************)
\* the answers of POST /cart/checkout/order/<id>/confirm
ConfirmResponses ==
  {Obj(<<"order_id", "total_price", "total_count", "delivery_slot">>,
       <<Str("O1"), Num(2350), Num(7),
         Obj(<<"window_start", "window_end">>,
             <<Text(<<"2","0","2","4","-","0","1","-","0","1","T","1","0",":","0","0",":","0","0","Z">>),
               Text(<<"2","0","2","4","-","0","1","-","0","1","T","1","1",":","0","0",":","0","0","Z">>)>>)>>),
   Obj(<<"order_id", "total_price", "total_count">>, <<Str("O9"), Num(990), Num(3)>>)}

CheckoutIdle ==
  [pc |-> "idle", cart |-> Undefined, startResult |-> Undefined,
   orderId |-> Undefined, ret |-> Undefined]

\* mutant of NoTokens: && written for ||
NoTokensBoth(cart) == ~Truthy(Get(cart, "state_token")) /\ ~Truthy(Get(cart, "mts"))

\* !cart.state_token || !cart.mts
NoTokens(cart) == ~Truthy(Get(cart, "state_token")) \/ ~Truthy(Get(cart, "mts"))

\* !cart.selected_slot?.slot_id
NoSlot(cart) == ~Truthy(OptGet(Get(cart, "selected_slot"), "slot_id"))

\* mutant of checkoutBody: the tokens of the first cart any invocation has read are kept
\* and sent again
checkoutBodyCached(cart) ==
  LET seen == {c \in Checkouts : checkout[c].cart # Undefined /\ ~NoTokens(checkout[c].cart)}
      first == IF seen = {} THEN cart
               ELSE checkout[CHOOSE c \in seen : \A d \in seen : c <= d].cart
  IN Obj(<<"mts", "oos_article_ids", "state_token">>,
         <<Get(first, "mts"), Obj(<<>>, <<>>), Get(first, "state_token")>>)

checkoutBody(cart) ==
  Obj(<<"mts", "oos_article_ids", "state_token">>,
      <<Get(cart, "mts"), Obj(<<>>, <<>>), Get(cart, "state_token")>>)

\* mutant of NoOrderId: only a missing response is rejected
NoOrderIdNoResponse(startResult) == startResult.t \in {"undefined", "null"}

\* !startResult.order_id
NoOrderId(startResult) == ~Truthy(Get(startResult, "order_id"))

\* mutant of PaymentBody: the order id is left out of the body
PaymentBodyNoOrder(orderId) ==
  Obj(<<"app_return_url">>, <<Str("nl.picnic-supermarkt://payment")>>)

PaymentBody(orderId) ==
  Obj(<<"app_return_url", "order_id">>, <<Str("nl.picnic-supermarkt://payment"), orderId>>)

\* `/cart/checkout/order/${orderId}/confirm`
ConfirmPath(orderId) == <<"cart", "checkout", "order", Template(orderId), "confirm">>

\* s.replace("T", " "): the first occurrence only
RECURSIVE ReplaceT(_)
ReplaceT(cs) ==
  IF cs = <<>> THEN <<>>
  ELSE IF Head(cs) = "T" THEN <<" ">> \o Tail(cs)
  ELSE <<Head(cs)>> \o ReplaceT(Tail(cs))

\* ts?.slice(0, 16)?.replace("T", " ")
DisplayTime(ts) ==
  IF ts.t \in {"undefined", "null"} THEN Undefined
  ELSE Text(ReplaceT(SubSeq(ts.chars, 1, Min(16, Len(ts.chars)))))

CheckoutResult(confirmResult) ==
  Obj(<<"order_id", "total_price", "total_count", "delivery_window">>,
      <<Get(confirmResult, "order_id"), Get(confirmResult, "total_price"),
        Get(confirmResult, "total_count"),
        IF Truthy(Get(confirmResult, "delivery_slot"))
          THEN Obj(<<"start", "end">>,
                   <<DisplayTime(Get(Get(confirmResult, "delivery_slot"), "window_start")),
                     DisplayTime(Get(Get(confirmResult, "delivery_slot"), "window_end"))>>)
          ELSE Null>>)

ErrNoTokens == Obj(<<"error">>, <<Str("Cart has no state_token or mts - is the cart empty?")>>)
ErrNoSlot ==
  Obj(<<"error">>, <<Str("No delivery slot selected. Use picnic_set_delivery_slot first.")>>)
ErrStart(startResult) ==
  Obj(<<"error", "details">>,
      <<Str("Checkout start failed - no order_id returned"), startResult>>)

\* the handler is entered: ensureClientInitialized(), then step 1 reads the cart
CheckoutInvoke(c) ==
  /\ checkout[c].pc = "idle"
  /\ IF clientInitialized
       THEN /\ checkout' = [checkout EXCEPT ![c].pc = "cart"]
            /\ ctrace' = [ctrace EXCEPT ![c] = Append(@, CallEv("getShoppingCart", Undefined))]
       ELSE /\ checkout' = [checkout EXCEPT ![c].pc = "init"]
            /\ UNCHANGED ctrace
  /\ UNCHANGED <<clientInitialized, fvars, rvars>>

\* initializePicnicClient() resolves; step 1 reads the cart
CheckoutInitReturns(c) ==
  /\ checkout[c].pc = "init"
  /\ clientInitialized' = TRUE
  /\ checkout' = [checkout EXCEPT ![c].pc = "cart"]
  /\ UNCHANGED <<fvars, rvars>>
  /\ ctrace' = [ctrace EXCEPT ![c] = Append(@, CallEv("getShoppingCart", Undefined))]

\* mutant of CartReturns: a checkout is refused while another one is between its start
\* and its confirmation
CartReturnsOneAtATime(c) ==
  /\ checkout[c].pc = "cart"
  /\ \E cart \in Carts :
       IF \E d \in Checkouts \ {c} : checkout[d].pc \in {"start", "payment", "confirm"}
         THEN /\ checkout' = [checkout EXCEPT ![c].pc = "done", ![c].cart = cart,
                                              ![c].ret = Obj(<<"error">>, <<Str("busy")>>)]
              /\ ctrace' = [ctrace EXCEPT ![c] = Append(@, ReturnEv("getShoppingCart", cart))]
       ELSE IF NoTokens(cart)
         THEN /\ checkout' = [checkout EXCEPT ![c].pc = "done", ![c].cart = cart,
                                              ![c].ret = ErrNoTokens]
              /\ ctrace' = [ctrace EXCEPT ![c] = Append(@, ReturnEv("getShoppingCart", cart))]
       ELSE IF NoSlot(cart)
         THEN /\ checkout' = [checkout EXCEPT ![c].pc = "done", ![c].cart = cart,
                                              ![c].ret = ErrNoSlot]
              /\ ctrace' = [ctrace EXCEPT ![c] = Append(@, ReturnEv("getShoppingCart", cart))]
       ELSE /\ checkout' = [checkout EXCEPT ![c].pc = "start", ![c].cart = cart]
            /\ ctrace' = [ctrace EXCEPT ![c] =
                 @ \o <<ReturnEv("getShoppingCart", cart),
                        CallEv("sendRequest",
                               Request("POST", <<"cart", "checkout", "start">>, checkoutBody(cart)))>>]
  /\ UNCHANGED <<clientInitialized, fvars, rvars>>

\* getShoppingCart() resolves; the preconditions are checked; step 2 starts the checkout
CartReturns(c) ==
  /\ checkout[c].pc = "cart"
  /\ \E cart \in Carts :
       IF NoTokens(cart)
         THEN /\ checkout' = [checkout EXCEPT ![c].pc = "done", ![c].cart = cart,
                                              ![c].ret = ErrNoTokens]
              /\ ctrace' = [ctrace EXCEPT ![c] = Append(@, ReturnEv("getShoppingCart", cart))]
       ELSE IF NoSlot(cart)
         THEN /\ checkout' = [checkout EXCEPT ![c].pc = "done", ![c].cart = cart,
                                              ![c].ret = ErrNoSlot]
              /\ ctrace' = [ctrace EXCEPT ![c] = Append(@, ReturnEv("getShoppingCart", cart))]
       ELSE /\ checkout' = [checkout EXCEPT ![c].pc = "start", ![c].cart = cart]
            /\ ctrace' = [ctrace EXCEPT ![c] =
                 @ \o <<ReturnEv("getShoppingCart", cart),
                        CallEv("sendRequest",
                               Request("POST", <<"cart", "checkout", "start">>, checkoutBody(cart)))>>]
  /\ UNCHANGED <<clientInitialized, fvars, rvars>>

\* the start call resolves; step 3 initiates the payment
StartReturns(c) ==
  /\ checkout[c].pc = "start"
  /\ \E startResult \in StartResponses :
       IF NoOrderId(startResult)
         THEN /\ checkout' = [checkout EXCEPT ![c].pc = "done", ![c].startResult = startResult,
                                              ![c].ret = ErrStart(startResult)]
              /\ ctrace' = [ctrace EXCEPT ![c] = Append(@, ReturnEv("sendRequest", startResult))]
         ELSE /\ checkout' = [checkout EXCEPT ![c].pc = "payment", ![c].startResult = startResult,
                                              ![c].orderId = Get(startResult, "order_id")]
              /\ ctrace' = [ctrace EXCEPT ![c] =
                   @ \o <<ReturnEv("sendRequest", startResult),
                          CallEv("sendRequest",
                                 Request("POST", <<"cart", "checkout", "initiate_payment">>,
                                         PaymentBody(Get(startResult, "order_id"))))>>]
  /\ UNCHANGED <<clientInitialized, fvars, rvars>>

\* the payment call resolves (its answer is not looked at); step 4 confirms the order
PaymentReturns(c) ==
  /\ checkout[c].pc = "payment"
  /\ checkout' = [checkout EXCEPT ![c].pc = "confirm"]
  /\ ctrace' = [ctrace EXCEPT ![c] =
       @ \o <<ReturnEv("sendRequest", Obj(<<>>, <<>>)),
              CallEv("sendRequest",
                     Request("POST", ConfirmPath(checkout[c].orderId), Obj(<<>>, <<>>)))>>]
  /\ UNCHANGED <<clientInitialized, fvars, rvars>>

\* mutant of ConfirmReturns: the order id and the totals are those of the start response
ConfirmReturnsStartTotals(c) ==
  /\ checkout[c].pc = "confirm"
  /\ \E confirmResult \in ConfirmResponses :
       /\ checkout' = [checkout EXCEPT ![c].pc = "done",
            ![c].ret = CheckoutResult(
                         Obj(<<"order_id", "total_price", "total_count", "delivery_slot">>,
                             <<checkout[c].orderId, Get(checkout[c].startResult, "total_price"),
                               Get(checkout[c].startResult, "total_count"),
                               Get(confirmResult, "delivery_slot")>>))]
       /\ ctrace' = [ctrace EXCEPT ![c] = Append(@, ReturnEv("sendRequest", confirmResult))]
  /\ UNCHANGED <<clientInitialized, fvars, rvars>>

\* the confirm call resolves; the handler returns the order
ConfirmReturns(c) ==
  /\ checkout[c].pc = "confirm"
  /\ \E confirmResult \in ConfirmResponses :
       /\ checkout' = [checkout EXCEPT ![c].pc = "done", ![c].ret = CheckoutResult(confirmResult)]
       /\ ctrace' = [ctrace EXCEPT ![c] = Append(@, ReturnEv("sendRequest", confirmResult))]
  /\ UNCHANGED <<clientInitialized, fvars, rvars>>

\* mutant of CheckoutThrows: a rejected payment call is caught and the order is confirmed
CheckoutThrowsPaymentCaught(c) ==
  /\ checkout[c].pc \in {"init", "cart", "start", "payment", "confirm"}
  /\ IF checkout[c].pc = "payment"
       THEN /\ checkout' = [checkout EXCEPT ![c].pc = "confirm"]
            /\ ctrace' = [ctrace EXCEPT ![c] =
                 @ \o <<ThrowEv("sendRequest"),
                        CallEv("sendRequest",
                               Request("POST", ConfirmPath(checkout[c].orderId), Obj(<<>>, <<>>)))>>]
       ELSE /\ checkout' = [checkout EXCEPT ![c].pc = "fault"]
            /\ ctrace' = [ctrace EXCEPT ![c] =
                 IF @ = <<>> THEN @ ELSE Append(@, ThrowEv(@[Len(@)].op))]
  /\ UNCHANGED <<clientInitialized, fvars, rvars>>

\* the handler has no try/catch: the awaited call rejects and the handler rejects with it
CheckoutThrows(c) ==
  /\ checkout[c].pc \in {"init", "cart", "start", "payment", "confirm"}
  /\ checkout' = [checkout EXCEPT ![c].pc = "fault"]
  /\ ctrace' = [ctrace EXCEPT ![c] =
                 IF @ = <<>> THEN @ ELSE Append(@, ThrowEv(@[Len(@)].op))]
  /\ UNCHANGED <<clientInitialized, fvars, rvars>>

CheckoutsAtRest ==
  /\ checkout = [c \in Checkouts |-> CheckoutIdle]
  /\ ctrace = [c \in Checkouts |-> <<>>]

InitCheckout ==
  /\ clientInitialized \in BOOLEAN
  /\ CheckoutsAtRest
  /\ RecipesAtRest
  /\ mealPlanner = {}
  /\ scaling = NoScaling
  /\ paging = NoPaging
  /\ search = NoSearch
  /\ walk = NoWalk

NextCheckout ==
  \E c \in Checkouts :
    \/ CheckoutInvoke(c)
    \/ CheckoutInitReturns(c)
    \/ CartReturns(c)
    \/ StartReturns(c)
    \/ PaymentReturns(c)
    \/ ConfirmReturns(c)
    \/ CheckoutThrows(c)

SpecCheckout == InitCheckout /\ [][NextCheckout]_vars

(***************************************************************************)
(* picnic_get_recipes invocations, overlapping, as time passes.            *)
(***************************************************************************)
InitRecipeCache ==
  /\ clientInitialized \in BOOLEAN
  /\ RecipesAtRest
  /\ mealPlanner = MenuPages
  /\ CheckoutsAtRest
  /\ scaling = NoScaling
  /\ paging = NoPaging
  /\ search = NoSearch
  /\ walk = NoWalk

NextRecipeCache ==
  \/ Tick
  \/ \E j \in RecipeCalls :
       \/ GetRecipes(j)
       \/ RecipeInitReturns(j)
       \/ FetchReturns(j)
       \/ RecipeThrows(j)

SpecRecipeCache == InitRecipeCache /\ [][NextRecipeCache]_vars

(***************************************************************************)
(* One invocation of picnic_get_recipe_details or picnic_add_recipe_to_cart *)
(* on any recipe, with the cache empty or already holding the page.        *)
(***************************************************************************)
InitRecipeOps ==
  /\ \E page \in CurryPages :
       /\ mealPlanner = {page}
       /\ \/ /\ clientInitialized \in BOOLEAN
             /\ recipeCacheData = Null
             /\ recipeCacheTimestamp = 0
          \/ /\ clientInitialized = TRUE
             /\ recipeCacheData = Arr(extractRecipes(page))
             /\ recipeCacheTimestamp = ProcessStart
  /\ clock = ProcessStart
  /\ recipe = [j \in RecipeCalls |-> RecipeIdle]
  /\ rtrace = [j \in RecipeCalls |-> <<>>]
  /\ CheckoutsAtRest
  /\ scaling = NoScaling
  /\ paging = NoPaging
  /\ search = NoSearch
  /\ walk = NoWalk

NextRecipeOps ==
  \/ GetRecipeDetails(1)
  \/ AddRecipeToCart(1)
  \/ RecipeInitReturns(1)
  \/ FetchReturns(1)
  \/ AddReturns(1)
  \/ RecipeThrows(1)

SpecRecipeOps == InitRecipeOps /\ [][NextRecipeOps]_vars

NextScale == Scale

InitScale ==
  /\ scaling \in ScalingInputs
  /\ paging = NoPaging
  /\ search = NoSearch
  /\ walk = NoWalk
  /\ clientInitialized = FALSE
  /\ CheckoutsAtRest
  /\ RecipesAtRest
  /\ mealPlanner = {}

SpecScale == InitScale /\ [][NextScale]_vars

NextExtract == ExtractRecipes \/ ExtractRecipesAgain

InitExtract ==
  /\ search \in [pc : {"input"}, payload : Payloads]
  /\ walk = NoWalk
  /\ scaling = NoScaling
  /\ paging = NoPaging
  /\ clientInitialized = FALSE
  /\ CheckoutsAtRest
  /\ RecipesAtRest
  /\ mealPlanner = {}

SpecExtract == InitExtract /\ [][NextExtract]_vars

NextWalk == WalkStart \/ WalkDescend \/ WalkReturn \/ WalkOverflow

InitWalk ==
  /\ walk \in [pc : {"input"}, heap : Heaps, stack : {<<>>}, recipes : {<<>>}]
  /\ scaling = NoScaling
  /\ paging = NoPaging
  /\ search = NoSearch
  /\ clientInitialized = FALSE
  /\ CheckoutsAtRest
  /\ RecipesAtRest
  /\ mealPlanner = {}

\* the recursion is synchronous code: it keeps running
SpecWalk == InitWalk /\ [][NextWalk]_vars /\ WF_vars(NextWalk)

NextPaginate == Paginate

InitPaginate ==
  /\ paging \in PagingInputs
  /\ search = NoSearch
  /\ walk = NoWalk
  /\ scaling = NoScaling
  /\ clientInitialized = FALSE
  /\ CheckoutsAtRest
  /\ RecipesAtRest
  /\ mealPlanner = {}

SpecPaginate == InitPaginate /\ [][NextPaginate]_vars


(***************************************************************************)
(* Properties of picnic_checkout                                           *)
(***************************************************************************)
StartPath == <<"cart", "checkout", "start">>
PaymentPath == <<"cart", "checkout", "initiate_payment">>

IsCall(ev) == ev.e = "call"
IsWrite(ev) == ev.e = "call" /\ ev.op = "sendRequest"
IsCallTo(ev, path) == IsWrite(ev) /\ ev.arg.path = path
IsCartReturn(ev) == ev.e = "return" /\ ev.op = "getShoppingCart"
Writes(tr) == SelectSeq(tr, IsWrite)

\* a cart with a token or the slot id absent
LacksPrecondition(cart) ==
  \/ Get(cart, "state_token") = Undefined
  \/ Get(cart, "mts") = Undefined
  \/ OptGet(Get(cart, "selected_slot"), "slot_id") = Undefined

\* C1: when the cart read returns a cart whose state token or mutation token is
\* absent, or that has no selected slot id, the invocation has returned an error
\* value (it has not thrown) and has issued no write call.
C1_PreconditionFailure ==
  \A c \in Checkouts :
    \A k \in 1..Len(ctrace[c]) :
      (IsCartReturn(ctrace[c][k]) /\ LacksPrecondition(ctrace[c][k].val))
        => /\ checkout[c].pc = "done"
           /\ Truthy(Get(checkout[c].ret, "error"))
           /\ Get(checkout[c].ret, "order_id") = Undefined
           /\ Writes(ctrace[c]) = <<>>
           /\ k = Len(ctrace[c])

\* a cart with both tokens and no slot was read and the invocation returned the slot error
C1_Witness ==
  \E c \in Checkouts :
    /\ checkout[c].pc = "done"
    /\ checkout[c].ret = ErrNoSlot
    /\ Get(checkout[c].cart, "mts") = Num(1)
    /\ Get(checkout[c].cart, "state_token") = Str("st1")
    /\ Get(checkout[c].cart, "selected_slot") = Undefined
    /\ Writes(ctrace[c]) = <<>>

\* C2: when the start call returns a response without an order id, the invocation
\* has returned an error value carrying that raw response, and the start call is
\* the last call it issued (neither initiate-payment nor confirm follows).
C2_StartFailure ==
  \A c \in Checkouts :
    \A k \in 2..Len(ctrace[c]) :
      (/\ ctrace[c][k].e = "return"
       /\ IsCallTo(ctrace[c][k - 1], StartPath)
       /\ Get(ctrace[c][k].val, "order_id") = Undefined)
        => /\ k = Len(ctrace[c])
           /\ checkout[c].pc = "done"
           /\ Truthy(Get(checkout[c].ret, "error"))
           /\ Get(checkout[c].ret, "details") = ctrace[c][k].val
           /\ Len(Writes(ctrace[c])) = 1

\* the start call returned a response without order_id and the invocation is over
C2_Witness ==
  \E c \in Checkouts :
    /\ checkout[c].pc = "done"
    /\ checkout[c].startResult = Obj(<<"error">>, <<Str("CART_CHANGED")>>)
    /\ Get(checkout[c].ret, "details") = checkout[c].startResult

\* the i-th call of an invocation is the i-th step of the checkout
IsStep(ev, i, orderId) ==
  CASE i = 1 -> ev.op = "getShoppingCart"
    [] i = 2 -> IsCallTo(ev, StartPath)
    [] i = 3 -> IsCallTo(ev, PaymentPath) /\ Get(ev.arg.body, "order_id") = orderId
    [] i = 4 -> IsCallTo(ev, <<"cart", "checkout", "order", Template(orderId), "confirm">>)
    [] OTHER -> FALSE

\* the order id the start call of a trace returned (undefined before it returns)
StartOrderId(api) ==
  IF Len(api) >= 4 /\ api[4].e = "return" THEN Get(api[4].val, "order_id") ELSE Undefined

\* C3: the API calls of an invocation are, in order, a prefix of read cart, start
\* checkout, initiate payment, confirm order; each call but the first directly
\* follows the return of the call before it (so none follows a fault and none is
\* repeated); initiate-payment and confirm carry the order id the start call returned.
C3_StrictSequence ==
  \A c \in Checkouts :
    LET api == ctrace[c]
        callAt == {k \in 1..Len(api) : IsCall(api[k])}
    IN /\ Cardinality(callAt) <= 4
       /\ \A k \in callAt :
            /\ k % 2 = 1
            /\ IsStep(api[k], (k + 1) \div 2, StartOrderId(api))
            /\ k > 1 => api[k - 1].e = "return"
       /\ \A k \in 1..Len(api) : k % 2 = 0 => ~IsCall(api[k])
       /\ Cardinality(callAt) >= 3 => Truthy(StartOrderId(api))

\* an invocation has issued all four calls, for order O2
C3_Witness ==
  \E c \in Checkouts :
    /\ checkout[c].pc = "confirm"
    /\ checkout[c].orderId = Str("O2")
    /\ Len(Writes(ctrace[c])) = 3

\* C4: when the initiate-payment call fails, the invocation has ended with the
\* fault (no value is returned) and the failed call is the last one it issued.
C4_PaymentFault ==
  \A c \in Checkouts :
    \A k \in 2..Len(ctrace[c]) :
      (ctrace[c][k].e = "throw" /\ IsCallTo(ctrace[c][k - 1], PaymentPath))
        => /\ checkout[c].pc = "fault"
           /\ checkout[c].ret = Undefined
           /\ k = Len(ctrace[c])

\* the payment call of an invocation failed
C4_Witness ==
  \E c \in Checkouts :
    /\ checkout[c].pc = "fault"
    /\ Len(ctrace[c]) >= 2
    /\ IsCallTo(ctrace[c][Len(ctrace[c]) - 1], PaymentPath)

\* C5: the first API call of every invocation is its own cart read, and the start
\* call carries exactly the mts and the state token that this read returned.
C5_FreshTokens ==
  \A c \in Checkouts :
    LET api == ctrace[c]
    IN /\ api # <<>> => api[1] = CallEv("getShoppingCart", Undefined)
       /\ \A k \in 1..Len(api) :
            IsCallTo(api[k], StartPath)
              => /\ k = 3
                 /\ IsCartReturn(api[2])
                 /\ Get(api[k].arg.body, "mts") = Get(api[2].val, "mts")
                 /\ Get(api[k].arg.body, "state_token") = Get(api[2].val, "state_token")
                 /\ Get(api[k].arg.body, "oos_article_ids") = Obj(<<>>, <<>>)

\* two invocations read different carts and each started a checkout
C5_Witness ==
  \E c, d \in Checkouts :
    /\ Get(checkout[c].cart, "mts") = Num(1)
    /\ Get(checkout[d].cart, "mts") = Num(2)
    /\ Len(Writes(ctrace[c])) >= 1
    /\ Len(Writes(ctrace[d])) >= 1


(***************************************************************************)
(* Properties of the recipe handlers                                       *)
(***************************************************************************)
\* ceiling(a / b) in whole-number arithmetic
CeilDiv(a, b) == (a + b - 1) \div b

\* C8: the quantity of an added ingredient is
\* ceiling(selling_unit_quantity * servings / default_servings), the default servings
\* standing for omitted servings.
C8_CeilingQuantity ==
  scaling.pc = "done"
    => scaling.quantity =
         CeilDiv(scaling.selling_unit_quantity * scaling.servings, scaling.default_servings)


FiveMinutes == 5 * 60 * 1000

\* a cache entry exists and less than five minutes have passed since its fetch timestamp
EntryFresh == recipeCacheData # Null /\ clock - recipeCacheTimestamp < FiveMinutes

IsFetch(ev) ==
  ev.e = "call" /\ ev.op = "sendRequest" /\ ev.arg.path = <<"pages", "meals-planner-root">>
IsAdd(ev) == ev.e = "call" /\ ev.op = "addProductToShoppingCart"
Fetches(tr) == SelectSeq(tr, IsFetch)
Adds(tr) == SelectSeq(tr, IsAdd)

\* C6: a picnic_get_recipes call entered while a cache entry is fresh returns at once
\* the list of the cached recipes and issues no meal planner fetch; a call entered
\* with no entry or with five minutes or more elapsed goes to the fetch; no call
\* issues more than one fetch, and a call that went to the fetch and returned has
\* issued exactly one.
C6_FetchOnlyWhenStale ==
  [][\A j \in RecipeCalls :
       /\ (recipe[j].pc = "idle" /\ recipe'[j].pc # "idle")
            => IF EntryFresh
                 THEN /\ recipe'[j].pc = "done"
                      /\ rtrace'[j] = <<>>
                      /\ recipe'[j].ret = RecipeList(recipeCacheData.items)
                 ELSE /\ recipe'[j].pc \in {"init", "fetch"}
                      /\ Len(Fetches(rtrace'[j])) = IF recipe'[j].pc = "fetch" THEN 1 ELSE 0
       /\ Len(Fetches(rtrace'[j])) <= 1
       /\ (recipe[j].pc \in {"init", "fetch"} /\ recipe'[j].pc = "done")
            => Len(Fetches(rtrace'[j])) = 1]_vars

\* a first call fetched, a second call within the window did not, a third call after
\* the window fetched again
C6_Witness ==
  \E a, b, c \in RecipeCalls :
    /\ recipe[a].pc = "done" /\ recipe[b].pc = "done" /\ recipe[c].pc = "done"
    /\ Len(Fetches(rtrace[a])) = 1
    /\ recipe[b].now > recipe[a].now
    /\ recipe[b].now - recipe[a].now < FiveMinutes
    /\ Len(Fetches(rtrace[b])) = 0
    /\ recipe[c].now - recipe[a].now >= FiveMinutes
    /\ Len(Fetches(rtrace[c])) = 1

\* the handler has looked the recipe up
LookedUp(L) ==
  /\ L.op \in {"picnic_get_recipe_details", "picnic_add_recipe_to_cart"}
  /\ L.pc \notin {"idle", "init", "fetch"}

InCache(id) ==
  /\ recipeCacheData # Null
  /\ \E i \in 1..Len(recipeCacheData.items) : Get(recipeCacheData.items[i], "recipe_id") = id

\* C7: when picnic_get_recipe_details or picnic_add_recipe_to_cart has looked up an id
\* that no cached recipe has, it has returned (not thrown) a value whose error names
\* the id and whose suggestion points to picnic_get_recipes, and it has issued no
\* add-to-cart call.
C7_NotFound ==
  \A j \in RecipeCalls :
    (/\ LookedUp(recipe[j])
     /\ recipeCacheData # Null
     /\ ~InCache(Get(recipe[j].args, "recipe_id")))
      => /\ recipe[j].pc = "done"
         /\ Get(recipe[j].ret, "error")
              = Text(<<"Recipe '", Get(recipe[j].args, "recipe_id").v, "' not found">>)
         /\ Get(recipe[j].ret, "suggestion")
              = Str("Use picnic_get_recipes to find valid recipe IDs.")
         /\ Get(recipe[j].ret, "recipe_id") = Undefined
         /\ Get(recipe[j].ret, "added") = Undefined
         /\ Adds(rtrace[j]) = <<>>

\* picnic_add_recipe_to_cart was called for r9, which the fetched page does not have
C7_Witness ==
  \E j \in RecipeCalls :
    /\ recipe[j].op = "picnic_add_recipe_to_cart"
    /\ Get(recipe[j].args, "recipe_id") = Str("r9")
    /\ recipe[j].pc = "done"
    /\ Len(rtrace[j]) = 2

IsCupboard(i) == Get(i, "ingredient_type") = Str("CUPBOARD")
IsUnavailable(i) == ~IsCupboard(i) /\ Get(i, "availability_status") # Str("AVAILABLE")
IsEligible(i) == ~IsCupboard(i) /\ Get(i, "availability_status") = Str("AVAILABLE")
Names(xs) == [i \in 1..Len(xs) |-> Get(xs[i], "name")]
SoldUnits(xs) == [i \in 1..Len(xs) |-> Get(xs[i], "selling_unit_id")]

\* C9: in picnic_add_recipe_to_cart, with the loop at ingredient `next`: the
\* add-to-cart calls issued are those of the non-cupboard, available ingredients up
\* to there, one each and in order; the cupboard-skipped list holds every CUPBOARD
\* ingredient before there whatever its availability, the unavailable list every
\* other ingredient before there that is not AVAILABLE; and the returned result
\* carries these lists for the whole recipe (so a recipe with nothing to add returns
\* an empty added list after no add call).
C9_Routing ==
  \A j \in RecipeCalls :
    LET L == recipe[j]
    IN (L.op = "picnic_add_recipe_to_cart" /\ L.next > 0)
         => LET ingredients == Get(L.recipe, "ingredients").items
                passed == SubSeq(ingredients, 1, L.next - 1)
                reached == SubSeq(ingredients, 1, Min(L.next, Len(ingredients)))
            IN /\ L.skippedCupboard = Names(SelectSeq(passed, IsCupboard))
               /\ L.unavailable = Names(SelectSeq(passed, IsUnavailable))
               /\ Names(L.added) = Names(SelectSeq(passed, IsEligible))
               /\ [k \in 1..Len(Adds(rtrace[j])) |-> Adds(rtrace[j])[k].arg[1]]
                    = SoldUnits(SelectSeq(reached, IsEligible))
               /\ L.pc = "done"
                    => /\ L.next = Len(ingredients) + 1
                       /\ Get(L.ret, "skipped_cupboard") = Arr(L.skippedCupboard)
                       /\ Get(L.ret, "unavailable") = Arr(L.unavailable)
                       /\ Get(L.ret, "added") = Arr(L.added)

\* a recipe with CUPBOARD "Salt" and CORE, OUT_OF_STOCK "Rice" returned both skip lists,
\* nothing added, and no add call was issued
C9_Witness ==
  \E j \in RecipeCalls :
    /\ recipe[j].pc = "done"
    /\ Get(recipe[j].ret, "skipped_cupboard") = Arr(<<Str("Salt")>>)
    /\ Get(recipe[j].ret, "unavailable") = Arr(<<Str("Rice")>>)
    /\ Get(recipe[j].ret, "added") = Arr(<<>>)
    /\ Get(Get(recipe[j].recipe, "ingredients").items[2], "ingredient_type") = Str("CORE")
    /\ Adds(rtrace[j]) = <<>>

\* C10: a failed add-to-cart call does not end picnic_add_recipe_to_cart with a fault.
C10_AddFailureNotFatal ==
  \A j \in RecipeCalls :
    (\E k \in 1..Len(rtrace[j]) : rtrace[j][k] = ThrowEv("addProductToShoppingCart"))
      => recipe[j].pc # "fault"


Max(a, b) == IF a > b THEN a ELSE b

\* the items of a paginated answer
PageItems(ret) ==
  IF Get(ret, "results") # Undefined THEN Get(ret, "results").items
  ELSE Get(ret, "deliveries").items

\* what identifies an entry of the full result
EntryId(op, k) == IF op = "picnic_search" THEN Get(Product(k), "id") ELSE Get(Delivery(k), "delivery_id")
ItemId(item) == IF Get(item, "id") # Undefined THEN Get(item, "id") ELSE Get(item, "delivery_id")

\* C17: a paginated answer over a full result of size total, with offset >= 0 and
\* limit >= 1, has min(limit, max(0, total - offset)) items, which are the entries at
\* positions offset .. offset+limit-1 in their original order; it reports that count
\* as returned, the full size as total, and hasMore exactly when offset + limit < total.
C17_Slice ==
  paging.pc = "done"
    => LET offset == Get(paging.args, "offset").v
           limit == Get(paging.args, "limit").v
           count == Min(limit, Max(0, paging.total - offset))
           items == PageItems(paging.ret)
           pagination == Get(paging.ret, "pagination")
       IN /\ Len(items) = count
          /\ \A i \in 1..count : ItemId(items[i]) = EntryId(paging.op, offset + i)
          /\ Get(pagination, "returned") = Num(count)
          /\ Get(pagination, "total") = Num(paging.total)
          /\ Get(pagination, "offset") = Num(offset)
          /\ Get(pagination, "limit") = Num(limit)
          /\ Get(pagination, "hasMore") = Bool(offset + limit < paging.total)

\* 23 results: offset 20, limit 10 gave the last 3 and hasMore false
C17_Witness ==
  /\ paging.pc = "done"
  /\ paging.total = 23
  /\ Get(paging.args, "offset") = Num(20)
  /\ Get(paging.args, "limit") = Num(10)
  /\ Len(PageItems(paging.ret)) = 3
  /\ Get(Get(paging.ret, "pagination"), "hasMore") = Bool(FALSE)


\* the add-to-cart calls of a trace that have not come back yet
InFlight(tr) ==
  Len(Adds(tr))
    - Len(SelectSeq(tr, LAMBDA ev : ev.e \in {"return", "throw"}
                                      /\ ev.op = "addProductToShoppingCart"))

\* the add-to-cart calls of one invocation go out one at a time and in ingredient order:
\* each starts right after the return of the one before it
AddCallsSequential ==
  \A j \in RecipeCalls :
    /\ InFlight(rtrace[j]) \in {0, 1}
    /\ \A k \in 2..Len(rtrace[j]) :
         (IsAdd(rtrace[j][k]) /\ Adds(SubSeq(rtrace[j], 1, k - 1)) # <<>>)
           => rtrace[j][k - 1] = ReturnEv("addProductToShoppingCart", Undefined)
    /\ recipe[j].next > 0
         => \E f \in [1..Len(Adds(rtrace[j])) -> 1..Len(Get(recipe[j].recipe, "ingredients").items)] :
              /\ \A a, b \in DOMAIN f : a < b => f[a] < f[b]
              /\ \A a \in DOMAIN f :
                   Adds(rtrace[j])[a].arg[1]
                     = Get(Get(recipe[j].recipe, "ingredients").items[f[a]], "selling_unit_id")

\* C11: when a picnic_add_recipe_to_cart invocation that reached its loop has ended,
\* every eligible (non-cupboard, available) ingredient of the recipe has had exactly
\* one add-to-cart call, in ingredient order.
C11_EachEligibleOnce ==
  \A j \in RecipeCalls :
    (/\ recipe[j].op = "picnic_add_recipe_to_cart"
     /\ recipe[j].next > 0
     /\ recipe[j].pc \in {"done", "fault"})
      => [k \in 1..Len(Adds(rtrace[j])) |-> Adds(rtrace[j])[k].arg[1]]
           = SoldUnits(SelectSeq(Get(recipe[j].recipe, "ingredients").items, IsEligible))


\* a node with a non-empty recipe identifier and an ingredient sequence
RecipeShaped(node) ==
  /\ node.t = "object"
  /\ Get(node, "recipe_id") \notin {Undefined, Null, Str("")}
  /\ Get(node, "ingredients").t = "array"

\* the nodes directly below a node
Below(node) ==
  IF node.t = "array" THEN node.items ELSE IF node.t = "object" THEN node.vals ELSE <<>>

\* the node a path of child positions leads to (Undefined when there is none)
RECURSIVE NodeAt(_, _)
NodeAt(node, path) ==
  IF path = <<>> THEN node
  ELSE IF Head(path) \in 1..Len(Below(node)) THEN NodeAt(Below(node)[Head(path)], Tail(path))
  ELSE Undefined

\* the paths to the nodes of a payload
RECURSIVE Paths(_)
Paths(node) ==
  {<<>>} \cup UNION {{<<i>> \o p : p \in Paths(Below(node)[i])} : i \in 1..Len(Below(node))}

IsPrefix(p, q) == Len(p) < Len(q) /\ SubSeq(q, 1, Len(p)) = p

\* depth-first order: a node before the nodes below it and before its later siblings
Before(p, q) ==
  \/ IsPrefix(p, q)
  \/ \E k \in 1..Min(Len(p), Len(q)) : SubSeq(p, 1, k - 1) = SubSeq(q, 1, k - 1) /\ p[k] < q[k]

\* the recipe-shaped nodes of a payload that have no recipe-shaped node above them
Outermost(payload) ==
  {p \in Paths(payload) :
     /\ RecipeShaped(NodeAt(payload, p))
     /\ \A k \in 0..(Len(p) - 1) : ~RecipeShaped(NodeAt(payload, SubSeq(p, 1, k)))}

\* a set of paths as a sequence in depth-first order
RECURSIVE InOrder(_)
InOrder(S) ==
  IF S = {} THEN <<>>
  ELSE LET first == CHOOSE p \in S : \A q \in S \ {p} : Before(p, q)
       IN <<first>> \o InOrder(S \ {first})

\* C12: extractRecipes returns exactly the recipe-shaped nodes that have no
\* recipe-shaped node above them, each once and in depth-first order (so nothing
\* inside a matched recipe, and the empty sequence when nothing matches), and a second
\* run on the same payload returns the same sequence.
C12_OutermostRecipes ==
  search.pc \in {"once", "twice"}
    => /\ LET paths == InOrder(Outermost(search.payload))
          IN search.first = [i \in 1..Len(paths) |-> NodeAt(search.payload, paths[i])]
       /\ search.pc = "twice" => search.second = search.first

\* a payload with two recipes side by side, the first holding a recipe of its own,
\* was searched twice and gave the two outer recipes
C12_Witness ==
  /\ search.pc = "twice"
  /\ Len(search.first) = 2
  /\ \E p \in Paths(search.payload) :
       /\ RecipeShaped(NodeAt(search.payload, p))
       /\ p \notin Outermost(search.payload)
       /\ \E i \in 1..Len(p) - 1 : NodeAt(search.payload, SubSeq(p, 1, i)) = search.first[1]


\* C13: extractRecipes returns on every payload, also on one whose objects refer to
\* each other in a cycle.
C13_SearchReturns == <>(walk.pc = "returned")


\* the pages the fetch of invocation j received
Received(j) ==
  {rtrace[j][k].val : k \in {i \in 1..Len(rtrace[j]) :
                               rtrace[j][i].e = "return" /\ rtrace[j][i].op = "sendRequest"}}

\* C14: with overlapping picnic_get_recipes invocations, the cache is either absent or
\* holds the whole recipe sequence of the page one invocation received together with
\* the timestamp of that same invocation, and every invocation that returned has
\* returned the whole listing of one received page.
C14_WholesaleReplacement ==
  /\ \/ recipeCacheData = Null /\ recipeCacheTimestamp = 0
     \/ \E j \in RecipeCalls : \E response \in Received(j) :
          /\ recipeCacheData = Arr(extractRecipes(response))
          /\ recipeCacheTimestamp = recipe[j].now
  /\ \A j \in RecipeCalls :
       recipe[j].pc = "done"
         => \E i \in RecipeCalls : \E response \in Received(i) :
              recipe[j].ret = RecipeList(extractRecipes(response))

\* two invocations entered at the same time, both fetched, and received different pages
C14_Witness ==
  \E a, b \in RecipeCalls :
    /\ a # b
    /\ recipe[a].pc = "done" /\ recipe[b].pc = "done"
    /\ recipe[a].now = recipe[b].now
    /\ Received(a) # {} /\ Received(b) # {} /\ Received(a) # Received(b)
    /\ recipeCacheData # Null

\* C15: when a fetch returns and the cache is replaced, the stored timestamp is the
\* time of the replacement.
C15_TimestampAtReplacement ==
  [][\A j \in RecipeCalls :
       (recipe[j].pc = "fetch" /\ recipe'[j].pc \notin {"fetch", "fault"})
         => recipeCacheTimestamp' = clock']_vars

\* C19: when the meal planner fetch of an invocation fails, the invocation ends with a
\* fault and without a result, and the cached recipes and the timestamp are what they
\* were, so a cache that was absent or stale is still absent or stale for the next
\* invocation.
C19_FailedFetchKeepsCache ==
  [][\A j \in RecipeCalls :
       (recipe[j].pc = "fetch" /\ Len(rtrace'[j]) > Len(rtrace[j])
        /\ rtrace'[j][Len(rtrace'[j])] = ThrowEv("sendRequest"))
         => /\ recipe'[j].pc = "fault"
            /\ recipe'[j].ret = Undefined
            /\ recipeCacheData' = recipeCacheData
            /\ recipeCacheTimestamp' = recipeCacheTimestamp
            /\ CacheFresh(clock)' = CacheFresh(clock)]_vars

\* a fetch failed on a stale entry, the entry is still there and stale, and a later
\* invocation went to the fetch again
C19_Witness ==
  \E j, k \in RecipeCalls :
    /\ recipe[j].pc = "fault"
    /\ rtrace[j] # <<>> /\ rtrace[j][Len(rtrace[j])] = ThrowEv("sendRequest")
    /\ recipeCacheData # Null
    /\ recipe[j].now - recipeCacheTimestamp >= FiveMinutes
    /\ k > j /\ recipe[k].pc = "fetch"

\* C20: the timestamp of the recipe cache never decreases.
C20_TimestampMonotonic == [][recipeCacheTimestamp' >= recipeCacheTimestamp]_vars


\* the first 16 characters of an ISO-8601 timestamp, YYYY-MM-DD HH:MM
Minute(ts) == Text([i \in 1..16 |-> IF i = 11 THEN " " ELSE ts.chars[i]])

\* C16: when the confirm call has returned, the invocation has returned the order id,
\* the total price and the total count of the confirm response, and as delivery window
\* the start and end of its delivery slot cut to YYYY-MM-DD HH:MM, or null when the
\* confirm response has no delivery slot.
C16_ResultFromConfirm ==
  \A c \in Checkouts :
    (/\ Len(ctrace[c]) >= 2
     /\ IsWrite(ctrace[c][Len(ctrace[c]) - 1])
     /\ ctrace[c][Len(ctrace[c]) - 1].arg.path = ConfirmPath(checkout[c].orderId)
     /\ ctrace[c][Len(ctrace[c])].e = "return")
      => LET confirmResult == ctrace[c][Len(ctrace[c])].val
             slot == Get(confirmResult, "delivery_slot")
         IN /\ checkout[c].pc = "done"
            /\ Get(checkout[c].ret, "order_id") = Get(confirmResult, "order_id")
            /\ Get(checkout[c].ret, "total_price") = Get(confirmResult, "total_price")
            /\ Get(checkout[c].ret, "total_count") = Get(confirmResult, "total_count")
            /\ Get(checkout[c].ret, "delivery_window")
                 = IF slot = Undefined THEN Null
                   ELSE Obj(<<"start", "end">>,
                            <<Minute(Get(slot, "window_start")), Minute(Get(slot, "window_end"))>>)

\* the order started as O2 was confirmed as O1 with its own totals and a slot from
\* 10:00 to 11:00
C16_Witness ==
  \E c \in Checkouts :
    /\ checkout[c].pc = "done"
    /\ checkout[c].orderId = Str("O2")
    /\ Get(checkout[c].ret, "order_id") = Str("O1")
    /\ Get(checkout[c].ret, "total_price") = Num(2350)
    /\ Get(checkout[c].ret, "total_count") = Num(7)
    /\ Get(Get(checkout[c].ret, "delivery_window"), "start")
         = Text(<<"2","0","2","4","-","0","1","-","0","1"," ","1","0",":","0","0">>)
    /\ Get(Get(checkout[c].ret, "delivery_window"), "end")
         = Text(<<"2","0","2","4","-","0","1","-","0","1"," ","1","1",":","0","0">>)

\* a cart the handler accepts: both tokens and a slot id
Accepted(cart) ==
  /\ Truthy(Get(cart, "state_token")) /\ Truthy(Get(cart, "mts"))
  /\ Truthy(OptGet(Get(cart, "selected_slot"), "slot_id"))

\* C18: whatever the other invocations are doing, an invocation whose cart read returns
\* an accepted cart issues the start call with the tokens of that cart; nothing in the
\* handler holds it back while another checkout is under way.
C18_NoGuard ==
  [][\A c \in Checkouts :
       (/\ checkout[c].pc = "cart"
        /\ checkout'[c].pc \notin {"cart", "fault"}
        /\ Accepted(checkout'[c].cart))
         => /\ checkout'[c].pc = "start"
            /\ IsCallTo(ctrace'[c][Len(ctrace'[c])], StartPath)
            /\ Get(ctrace'[c][Len(ctrace'[c])].arg.body, "mts") = Get(checkout'[c].cart, "mts")
            /\ Get(ctrace'[c][Len(ctrace'[c])].arg.body, "state_token")
                 = Get(checkout'[c].cart, "state_token")]_vars

\* two invocations have read the same cart and both have their start call in flight,
\* with the same mutation token and state token
C18_Witness ==
  \E c, d \in Checkouts :
    /\ c # d
    /\ checkout[c].pc = "start" /\ checkout[d].pc = "start"
    /\ checkout[c].cart = checkout[d].cart
    /\ IsCallTo(ctrace[c][Len(ctrace[c])], StartPath)
    /\ ctrace[c][Len(ctrace[c])] = ctrace[d][Len(ctrace[d])]

====
